---- MODULE Spec2Model ----
(***************************************************************************)
(* The purchase-execution core of the hypercert mini app: the three        *)
(* execute() pipelines                                                     *)
(*   "EOAEnv"  frontend/src/components/EOABuyFractionalStrategy.tsx        *)
(*             (the environment-aware EOA strategy),                       *)
(*   "EOA"     src/unnamed/part_001 (the plain EOA strategy),              *)
(*   "Safe"    src/unnamed/part_000 (the Safe strategy).                   *)
(*                                                                         *)
(* execute() is an async function.  One action of the model is the code    *)
(* that runs between two awaits: it resumes with the outcome of the        *)
(* awaited call, runs the synchronous code that follows and ends by        *)
(* making the next awaited call (or by settling the promise).  The         *)
(* outcome of an external call (SDK, wallet, referral service) is chosen   *)
(* when the call is made and is recorded with the call.                    *)
(*                                                                         *)
(* Error messages are sequences of words; String.prototype.includes is     *)
(* modelled as "holds a contiguous run of words equal to the needle".      *)
(***************************************************************************)
EXTENDS Integers, Sequences, FiniteSets, TLC

VARIABLES
    inv,            \* invocation id -> the state of that execute() invocation
    dialogContext,  \* the calls made on the shared dialog context, in order
    store           \* the calls made on useStore.getState(), in order

vars == <<inv, dialogContext, store>>

----------------------------------------------------------------------------
(* Bounds *)

MaxPrice == 2
MaxUnitAmount == 2
MaxPricePerUnit == 2
MaxAllowance == 2

----------------------------------------------------------------------------
(* Values *)

Strategies == {"EOAEnv", "EOA", "Safe"}

zeroAddress == "0x0"

\* order.currency: the native currency, a supported ERC20, an unknown token
OrderCurrencies == {zeroAddress, "0xERC20", "0xUnknown"}

Undefined == "undefined"

\* The pipeline of the EOA strategies (both variants declare the same ids)
EOASteps ==
    << "Setting up order execution", "ERC20", "Transfer manager",
       "Divvi referral setup", "Awaiting buy signature",
       "Awaiting confirmation" >>

\* The pipeline of the Safe strategy
SafeSteps ==
    << "Setting up order execution", "ERC20", "Transfer manager",
       "Divvi referral setup", "Submitting order", "Transaction queued" >>

StepsOf(strategy) == IF strategy = "Safe" THEN SafeSteps ELSE EOASteps

----------------------------------------------------------------------------
(* Messages: sequences of words *)

\* String.prototype.includes at word granularity
includes(message, needle) ==
    \E k \in 0..(Len(message) - Len(needle)) :
        \A j \in 1..Len(needle) : message[k + j] = needle[j]

MsgInsufficientFunds == <<"insufficient", "funds", "for", "gas">>
MsgInsufficientAllowance == <<"insufficient", "allowance">>
MsgUserRejected == <<"user", "rejected", "the", "request">>
MsgUserRejectedCap == <<"User", "rejected", "the", "request">>
MsgNotSupported == <<"wallet", "does", "not", "support", "this", "method">>
MsgAlreadyApproved == <<"operator", "already", "approved">>
MsgReverted == <<"execution", "reverted">>
MsgTimeout == <<"Timed", "out", "while", "waiting", "for", "transaction">>
MsgRpc == <<"RPC", "request", "failed">>
MsgInvalidAddress == <<"Invalid", "address">>
MsgReferralService == <<"referral", "service", "unavailable">>

\* What each external call can throw
Throws(fn) ==
    CASE fn = "createFractionalSaleTakerBid" -> {MsgInvalidAddress}
      [] fn = "getERC20Allowance" -> {MsgRpc}
      [] fn \in {"approveErc20", "approveErc20Safe"} ->
            {MsgInsufficientFunds, MsgInsufficientAllowance, MsgUserRejected,
             MsgUserRejectedCap, MsgNotSupported, MsgAlreadyApproved, MsgReverted}
      [] fn = "waitForTransactionReceipt" -> {MsgTimeout}
      [] fn \in {"isTransferManagerApproved", "isTransferManagerApprovedSafe"} ->
            {MsgRpc}
      [] fn \in {"grantTransferManagerApproval", "grantTransferManagerApprovalSafe"} ->
            {MsgUserRejected, MsgNotSupported, MsgAlreadyApproved, MsgReverted}
      [] fn = "getReferralTag" -> {MsgInvalidAddress}
      [] fn = "signMessage" -> {MsgUserRejected}
      [] fn \in {"executeOrder", "executeOrderSafe"} ->
            {MsgUserRejected, MsgReverted}
      [] fn = "submitReferral" -> {MsgReferralService}

\* What each external call can return
Returns(fn) ==
    CASE fn = "createFractionalSaleTakerBid" -> {"takerBid"}
      [] fn = "getERC20Allowance" -> 0..MaxAllowance
      [] fn \in {"approveErc20", "grantTransferManagerApproval", "executeOrder"} ->
            {"0xhash"}
      [] fn \in {"approveErc20Safe", "grantTransferManagerApprovalSafe",
                 "executeOrderSafe"} -> {"queued"}
      [] fn = "waitForTransactionReceipt" -> {"success", "reverted"}
      [] fn \in {"isTransferManagerApproved", "isTransferManagerApprovedSafe"} ->
            BOOLEAN
      [] fn = "getReferralTag" -> {"tag"}
      [] fn = "signMessage" -> {"0xsignature"}
      [] fn = "submitReferral" -> {"submitted"}

\* A call with its argument and its outcome ("ok" with the value returned,
\* "throw" with the message of the Error thrown)
Call(fn, arg, out, val) == [fn |-> fn, arg |-> arg, out |-> out, val |-> val]

----------------------------------------------------------------------------
(* The dialog context and the store: the calls made on them *)

NoStatus == "none"      \* setDialogStep(step): the status argument is omitted
NoMessage == <<>>

DialogCall(s, fn, arg, status, msg) ==
    [by |-> s.id, fn |-> fn, arg |-> arg, status |-> status, msg |-> msg]

setSteps(s, steps) == DialogCall(s, "setSteps", steps, NoStatus, NoMessage)
setOpen(s, open) == DialogCall(s, "setOpen", open, NoStatus, NoMessage)
setStep(s, step) == DialogCall(s, "setDialogStep", step, NoStatus, NoMessage)
setStepStatus(s, step, status, msg) == DialogCall(s, "setDialogStep", step, status, msg)
setExtraContent(s, content) == DialogCall(s, "setExtraContent", content, NoStatus, NoMessage)

StoreCall(s, fn, arg) == [by |-> s.id, fn |-> fn, arg |-> arg]

\* The effect of one action on invocation s: its next state, the dialog
\* calls and the store calls it made, in order
Commit(s, dlg, st) ==
    /\ inv' = [inv EXCEPT ![s.id] = s]
    /\ dialogContext' = dialogContext \o dlg
    /\ store' = store \o st

\* The call the invocation is awaiting, with its outcome
Awaited(s) == s.calls[Len(s.calls)]

WithCall(s, fn, arg, out, val) ==
    [s EXCEPT !.calls = Append(@, Call(fn, arg, out, val))]

\* Make an external call and suspend at `pc` until it settles
Await(s, pc, fn, arg, dlg) ==
    \/ \E v \in Returns(fn) :
          Commit([WithCall(s, fn, arg, "ok", v) EXCEPT !.pc = pc], dlg, <<>>)
    \/ \E m \in Throws(fn) :
          Commit([WithCall(s, fn, arg, "throw", m) EXCEPT !.pc = pc], dlg, <<>>)

\* `await setStep(...)`: the dialog calls are made, execute suspends at `pc`
AwaitStep(s, pc, dlg) == Commit([s EXCEPT !.pc = pc], dlg, <<>>)

\* throw out of execute: the promise rejects with `message`
Reject(s, message, dlg, st) ==
    Commit([s EXCEPT !.pc = "done", !.status = "rejected", !.error = message], dlg, st)

\* execute runs to its end: the promise resolves
Resolve(s, dlg, st) ==
    Commit([s EXCEPT !.pc = "done", !.status = "resolved"], dlg, st)

----------------------------------------------------------------------------
(* The state after construction of a strategy and the arguments of execute *)

Orders == [currency : OrderCurrencies, price : 1..MaxPrice]

\* let takerOrder: Taker, before it is assigned
NoTakerOrder == [unitAmount |-> 0, pricePerUnit |-> 0]

NewInvocation(i, strategy, exchangeClient, chainId, walletClientData, order, unitAmount, pricePerUnit) ==
    [ id |-> i,
      strategy |-> strategy,
      exchangeClient |-> exchangeClient,        \* this.exchangeClient is set
      chainId |-> chainId,                      \* this.chainId is set
      walletClientData |-> walletClientData,    \* this.walletClient.data is set
      order |-> order,
      unitAmount |-> unitAmount,
      pricePerUnit |-> pricePerUnit,
      pc |-> "start",
      isInFarcaster |-> FALSE,
      currency |-> Undefined,                   \* the Currency, by its address
      takerOrder |-> NoTakerOrder,
      totalPrice |-> 0,
      signedMessage |-> "",
      referralSignature |-> "",
      caught |-> NoMessage,                     \* e.message of the Error a catch holds
      errorMessage |-> NoMessage,               \* the message a catch block rethrows
      receipt |-> Undefined,                    \* status of the buy receipt
      calls |-> <<>>,                           \* external calls made, with outcomes
      status |-> "pending",                     \* of the promise execute returned
      error |-> NoMessage ]                     \* the message it rejected with

Invocations(i) ==
    { NewInvocation(i, st, ec, ci, wd, o, u, p) :
        st \in Strategies, ec \in BOOLEAN, ci \in BOOLEAN, wd \in BOOLEAN,
        o \in Orders, u \in 1..MaxUnitAmount, p \in 1..MaxPricePerUnit }

Init ==
    /\ inv \in { [i \in {1} |-> s] : s \in Invocations(1) }
    /\ dialogContext = <<>>
    /\ store = <<>>

----------------------------------------------------------------------------
(* execute: guards, step list, order setup *)

\* isFarcasterEnvironment()
isFarcasterEnvironment(hasWindow, userAgentFarcaster, hostnameWarpcast, isFrame) ==
    IF ~hasWindow THEN FALSE
    ELSE userAgentFarcaster \/ hostnameWarpcast \/ isFrame

\* getCurrencyByAddress(order.chainId, order.currency): the currency (known
\* by its address) or undefined
getCurrencyByAddress(address) ==
    IF address \in {zeroAddress, "0xERC20"} THEN address ELSE Undefined

\* Mutant of Guards: the chain id is checked last
Guards_ChainIdLast(s) ==
    IF ~s.exchangeClient THEN <<"No", "client">>
    ELSE IF ~s.walletClientData THEN <<"No", "wallet", "client", "data">>
    ELSE IF ~s.chainId THEN <<"No", "chain", "id">>
    ELSE NoMessage

\* The three guards at the head of execute: "" when all pass, else the
\* message of the Error thrown
Guards(s) ==
    IF ~s.exchangeClient THEN <<"No", "client">>
    ELSE IF ~s.chainId THEN <<"No", "chain", "id">>
    ELSE IF ~s.walletClientData THEN <<"No", "wallet", "client", "data">>
    ELSE NoMessage

\* setSteps([...]); setOpen(true); await setStep("Setting up order execution")
OpenDialog(s) ==
    AwaitStep(s, "setup",
              << setSteps(s, StepsOf(s.strategy)), setOpen(s, TRUE),
                 setStep(s, "Setting up order execution") >>)

\* A guard fails: setOpen(false) and throw
ExecuteRejected(i) ==
    /\ inv[i].pc = "start"
    /\ Guards(inv[i]) # NoMessage
    /\ Reject(inv[i], Guards(inv[i]), <<setOpen(inv[i], FALSE)>>, <<>>)

\* The guards pass: environment detection (EOAEnv only), setSteps, setOpen
ExecuteBegin(i) ==
    /\ inv[i].pc = "start"
    /\ Guards(inv[i]) = NoMessage
    /\ IF inv[i].strategy = "EOAEnv"
       THEN \E w, u, h, f \in BOOLEAN :
               OpenDialog([inv[i] EXCEPT
                   !.isInFarcaster = isFarcasterEnvironment(w, u, h, f)])
       ELSE OpenDialog(inv[i])

\* catch of the setup stage
SetupCatch(s, message) ==
    AwaitStep(s, "setup_failed",
              <<setStepStatus(s, "Setting up order execution", "error", message)>>)

\* try { await setStep("ERC20")
BeginERC20(s) == AwaitStep(s, "erc20", <<setStep(s, "ERC20")>>)

\* After setStep("Setting up order execution"): currency lookup, taker bid
SetupOrder(s) ==
    LET currency == getCurrencyByAddress(s.order.currency)
        s0 == [s EXCEPT !.currency = currency]
        bid == [unitAmount |-> s.unitAmount, pricePerUnit |-> s.pricePerUnit]
    IN
    IF currency = Undefined
    THEN SetupCatch(s0, <<"Invalid", "currency", s.order.currency>>)
    ELSE \/ \E m \in Throws("createFractionalSaleTakerBid") :
               SetupCatch(WithCall(s0, "createFractionalSaleTakerBid", bid, "throw", m), m)
         \/ \E v \in Returns("createFractionalSaleTakerBid") :
               BeginERC20([WithCall(s0, "createFractionalSaleTakerBid", bid, "ok", v)
                             EXCEPT !.takerOrder = bid,
                                    !.totalPrice = s.order.price * s.unitAmount])

Setup(i) ==
    /\ inv[i].pc = "setup"
    /\ SetupOrder(inv[i])

\* The setup catch rethrows after its setStep
SetupFailed(i) ==
    /\ inv[i].pc = "setup_failed"
    /\ Reject(inv[i], <<"Error", "setting", "up", "order", "execution">>, <<>>, <<>>)

----------------------------------------------------------------------------
(* ERC20 approval stage *)

\* try { await setStep("Transfer manager")
BeginTransferManager(s) == AwaitStep(s, "tm", <<setStep(s, "Transfer manager")>>)

\* A catch block: setStep(step, "error", shown), then throw Error(rethrown)
CatchAndRethrow(s, pc, step, caught, shown, rethrown) ==
    AwaitStep([s EXCEPT !.caught = caught, !.errorMessage = rethrown], pc,
              <<setStepStatus(s, step, "error", shown)>>)

InsufficientFundsForApproval ==
    << "Insufficient", "funds", "for", "approval.", "Please", "ensure", "you",
       "have", "enough", "ETH", "for", "gas", "fees." >>

\* EOAEnv: the message the ERC20 catch shows and rethrows
EOAEnvApprovalErrorMessage(message) ==
    IF includes(message, <<"insufficient", "funds">>)
    THEN InsufficientFundsForApproval
    ELSE IF includes(message, <<"user", "rejected">>)
            \/ includes(message, <<"User", "rejected">>)
    THEN << "Approval", "transaction", "was", "rejected.", "Please", "try",
            "again", "and", "confirm", "the", "transaction." >>
    ELSE IF includes(message, <<"does", "not", "support">>)
    THEN << "Wallet", "compatibility", "issue.", "Please", "try", "opening",
            "this", "page", "in", "a", "regular", "browser." >>
    ELSE <<"Approval", "failed:">> \o message

\* EOAEnv: catch of the ERC20 stage
EOAEnvERC20Catch(s, message) ==
    CatchAndRethrow(s, "erc20_failed", "ERC20", message,
                    EOAEnvApprovalErrorMessage(message),
                    EOAEnvApprovalErrorMessage(message))

\* Mutant of EOAERC20Catch: the catch marks the step and does not rethrow
EOAERC20Catch_NoRethrow(s, message) ==
    AwaitStep(s, "tm", << setStepStatus(s, "ERC20", "error", message),
                          setStep(s, "Transfer manager") >>)

\* EOA: catch of the ERC20 stage
EOAERC20Catch(s, message) ==
    CatchAndRethrow(s, "erc20_failed", "ERC20", message, message,
                    <<"Approval", "error">>)

\* Safe: catch of the ERC20 stage
SafeERC20Catch(s, message) ==
    CatchAndRethrow(s, "erc20_failed", "ERC20", message, message,
                    <<"Approval", "error">>)

ERC20Catch(s, message) ==
    CASE s.strategy = "EOAEnv" -> EOAEnvERC20Catch(s, message)
      [] s.strategy = "EOA" -> EOAERC20Catch(s, message)
      [] s.strategy = "Safe" -> SafeERC20Catch(s, message)

\* EOAEnv in the embedded host: the inner catch around approveErc20 and its
\* receipt.  It rethrows unless the message names an allowance
EOAEnvFarcasterApprovalCatch(s, message) ==
    IF /\ ~includes(message, <<"allowance">>)
       /\ ~includes(message, <<"approved">>)
       /\ ~includes(message, <<"insufficient">>)
    THEN EOAEnvERC20Catch(s, message)
    ELSE BeginTransferManager(s)

\* An Error thrown by approveErc20 or while waiting for its receipt
ApprovalThrown(s, message) ==
    IF s.strategy = "EOAEnv" /\ s.isInFarcaster
    THEN EOAEnvFarcasterApprovalCatch(s, message)
    ELSE ERC20Catch(s, message)

ApproveErc20(s) ==
    Await(s, "erc20_approve",
          IF s.strategy = "Safe" THEN "approveErc20Safe" ELSE "approveErc20",
          [currency |-> s.order.currency, amount |-> s.totalPrice], <<>>)

\* After setStep("ERC20"): nothing for the native currency; in the embedded
\* host EOAEnv approves at once; otherwise the allowance is read
ERC20(i) ==
    /\ inv[i].pc = "erc20"
    /\ LET s == inv[i] IN
       IF s.currency = zeroAddress
       THEN BeginTransferManager(s)
       ELSE IF s.strategy = "EOAEnv" /\ s.isInFarcaster
       THEN ApproveErc20(s)
       ELSE Await(s, "erc20_allowance", "getERC20Allowance", s.order.currency, <<>>)

\* getERC20Allowance settled: approve when currentAllowance < totalPrice
ERC20Allowance(i) ==
    /\ inv[i].pc = "erc20_allowance"
    /\ LET s == inv[i]
           c == Awaited(s)
       IN  IF c.out = "throw"
           THEN ERC20Catch(s, c.val)
           ELSE IF c.val < s.totalPrice
           THEN ApproveErc20(s)
           ELSE BeginTransferManager(s)

\* approveErc20 settled: the EOA strategies wait for the receipt, the Safe
\* strategy goes on
ERC20Approve(i) ==
    /\ inv[i].pc = "erc20_approve"
    /\ LET s == inv[i]
           c == Awaited(s)
       IN  IF c.out = "throw"
           THEN ApprovalThrown(s, c.val)
           ELSE IF s.strategy = "Safe"
           THEN BeginTransferManager(s)
           ELSE Await(s, "erc20_receipt", "waitForTransactionReceipt", c.val, <<>>)

\* EOAEnv: receipt.status !== 'success' throws
EOAEnvApprovalReceipt(s, status) ==
    IF status # "success"
    THEN ApprovalThrown(s, <<"Approval", "transaction", "failed">>)
    ELSE BeginTransferManager(s)

\* EOA: the receipt is awaited and not read
EOAApprovalReceipt(s, status) == BeginTransferManager(s)

\* The receipt of the approval settled
ERC20Receipt(i) ==
    /\ inv[i].pc = "erc20_receipt"
    /\ LET s == inv[i]
           c == Awaited(s)
       IN  IF c.out = "throw"
           THEN ApprovalThrown(s, c.val)
           ELSE IF s.strategy = "EOAEnv"
           THEN EOAEnvApprovalReceipt(s, c.val)
           ELSE EOAApprovalReceipt(s, c.val)

\* The ERC20 catch rethrows after its setStep
ERC20Failed(i) ==
    /\ inv[i].pc = "erc20_failed"
    /\ Reject(inv[i], inv[i].errorMessage, <<>>, <<>>)

----------------------------------------------------------------------------
(* Transfer manager approval stage *)

\* Mutant of BeginReferral: the stage starts without activating its step
BeginReferral_NoActivation(s) == AwaitStep(s, "referral", <<>>)

\* try { await setStep("Divvi referral setup")
BeginReferral(s) == AwaitStep(s, "referral", <<setStep(s, "Divvi referral setup")>>)

\* EOAEnv: the message the transfer manager catch shows and rethrows
EOAEnvTransferManagerErrorMessage(message) ==
    IF includes(message, <<"user", "rejected">>)
    THEN << "Transfer", "manager", "approval", "was", "rejected.", "This", "is",
            "required", "to", "complete", "the", "purchase." >>
    ELSE IF includes(message, <<"does", "not", "support">>)
    THEN << "Wallet", "compatibility", "issue", "with", "transfer", "manager.",
            "Please", "try", "in", "a", "regular", "browser." >>
    ELSE <<"Transfer", "manager", "approval", "failed:">> \o message

\* EOAEnv: catch of the transfer manager stage
EOAEnvTransferManagerCatch(s, message) ==
    CatchAndRethrow(s, "tm_failed", "Transfer manager", message,
                    EOAEnvTransferManagerErrorMessage(message),
                    EOAEnvTransferManagerErrorMessage(message))

\* EOA: catch of the transfer manager stage
EOATransferManagerCatch(s, message) ==
    CatchAndRethrow(s, "tm_failed", "Transfer manager", message, message,
                    <<"Approval", "error">>)

\* Safe: catch of the transfer manager stage
SafeTransferManagerCatch(s, message) ==
    CatchAndRethrow(s, "tm_failed", "Transfer manager", message, message,
                    <<"Approval", "error">>)

TransferManagerCatch(s, message) ==
    CASE s.strategy = "EOAEnv" -> EOAEnvTransferManagerCatch(s, message)
      [] s.strategy = "EOA" -> EOATransferManagerCatch(s, message)
      [] s.strategy = "Safe" -> SafeTransferManagerCatch(s, message)

\* EOAEnv in the embedded host: the inner catch around
\* grantTransferManagerApproval and its receipt
EOAEnvFarcasterTransferCatch(s, message) ==
    IF /\ ~includes(message, <<"approved">>)
       /\ ~includes(message, <<"already">>)
    THEN EOAEnvTransferManagerCatch(s, message)
    ELSE BeginReferral(s)

\* An Error thrown by grantTransferManagerApproval or while waiting for its
\* receipt
TransferThrown(s, message) ==
    IF s.strategy = "EOAEnv" /\ s.isInFarcaster
    THEN EOAEnvFarcasterTransferCatch(s, message)
    ELSE TransferManagerCatch(s, message)

\* Mutant of GrantTransferManagerApproval: the EOA call in every strategy
GrantTransferManagerApproval_EOACall(s) ==
    Await(s, "tm_grant", "grantTransferManagerApproval", s.strategy, <<>>)

GrantTransferManagerApproval(s) ==
    Await(s, "tm_grant",
          IF s.strategy = "Safe" THEN "grantTransferManagerApprovalSafe"
                                 ELSE "grantTransferManagerApproval",
          s.strategy, <<>>)

\* Mutant of TransferManager: the approval is read in every environment
TransferManager_AlwaysReads(i) ==
    /\ inv[i].pc = "tm"
    /\ LET s == inv[i] IN
       Await(s, "tm_check",
             IF s.strategy = "Safe" THEN "isTransferManagerApprovedSafe"
                                    ELSE "isTransferManagerApproved",
             s.strategy, <<>>)

\* After setStep("Transfer manager"): in the embedded host EOAEnv grants at
\* once; otherwise the approval is read
TransferManager(i) ==
    /\ inv[i].pc = "tm"
    /\ LET s == inv[i] IN
       IF s.strategy = "EOAEnv" /\ s.isInFarcaster
       THEN GrantTransferManagerApproval(s)
       ELSE Await(s, "tm_check",
                  IF s.strategy = "Safe" THEN "isTransferManagerApprovedSafe"
                                         ELSE "isTransferManagerApproved",
                  s.strategy, <<>>)

\* isTransferManagerApproved settled: grant when it returned false
TransferManagerCheck(i) ==
    /\ inv[i].pc = "tm_check"
    /\ LET s == inv[i]
           c == Awaited(s)
       IN  IF c.out = "throw"
           THEN TransferManagerCatch(s, c.val)
           ELSE IF ~c.val
           THEN GrantTransferManagerApproval(s)
           ELSE BeginReferral(s)

\* grantTransferManagerApproval settled: the EOA strategies wait for the
\* receipt, the Safe strategy goes on
TransferManagerGrant(i) ==
    /\ inv[i].pc = "tm_grant"
    /\ LET s == inv[i]
           c == Awaited(s)
       IN  IF c.out = "throw"
           THEN TransferThrown(s, c.val)
           ELSE IF s.strategy = "Safe"
           THEN BeginReferral(s)
           ELSE Await(s, "tm_receipt", "waitForTransactionReceipt", c.val, <<>>)

\* EOAEnv: receipt.status !== 'success' throws
EOAEnvTransferReceipt(s, status) ==
    IF status # "success"
    THEN TransferThrown(s, <<"Transfer", "manager", "approval", "failed">>)
    ELSE BeginReferral(s)

\* EOA: the receipt is awaited and not read
EOATransferReceipt(s, status) == BeginReferral(s)

\* The receipt of the grant settled
TransferManagerReceipt(i) ==
    /\ inv[i].pc = "tm_receipt"
    /\ LET s == inv[i]
           c == Awaited(s)
       IN  IF c.out = "throw"
           THEN TransferThrown(s, c.val)
           ELSE IF s.strategy = "EOAEnv"
           THEN EOAEnvTransferReceipt(s, c.val)
           ELSE EOATransferReceipt(s, c.val)

\* The transfer manager catch rethrows after its setStep
TransferManagerFailed(i) ==
    /\ inv[i].pc = "tm_failed"
    /\ Reject(inv[i], inv[i].errorMessage, <<>>, <<>>)

----------------------------------------------------------------------------
(* Referral setup stage *)

\* try { await setStep("Awaiting buy signature") (EOA) or
\* await setStep("Submitting order") (Safe)
BeginExecute(s) ==
    AwaitStep(s, "execute", <<setStep(s, StepsOf(s.strategy)[5])>>)

\* catch of the referral setup: the step is marked, nothing is thrown
ReferralCatch(s, message) ==
    AwaitStep([s EXCEPT !.caught = message], "referral_failed",
              <<setStepStatus(s, "Divvi referral setup", "error", message)>>)

\* The message that is signed
referralMessage(s) ==
    IF s.strategy = "Safe" THEN "Divvi Referral Attribution (Safe Transaction)"
                           ELSE "Divvi Referral Attribution"

\* After setStep("Divvi referral setup"): getReferralTag, then signMessage
Referral(i) ==
    /\ inv[i].pc = "referral"
    /\ LET s == inv[i] IN
       \/ \E m \in Throws("getReferralTag") :
             ReferralCatch(WithCall(s, "getReferralTag", s.strategy, "throw", m), m)
       \/ \E v \in Returns("getReferralTag") :
             Await(WithCall(s, "getReferralTag", s.strategy, "ok", v),
                   "referral_sign", "signMessage", referralMessage(s), <<>>)

\* signMessage settled
ReferralSign(i) ==
    /\ inv[i].pc = "referral_sign"
    /\ LET s == inv[i]
           c == Awaited(s)
       IN  IF c.out = "throw"
           THEN ReferralCatch(s, c.val)
           ELSE BeginExecute([s EXCEPT !.referralSignature = c.val,
                                       !.signedMessage = c.arg])

\* Mutant of ReferralFailed: the referral catch rethrows
ReferralFailed_Rethrows(i) ==
    /\ inv[i].pc = "referral_failed"
    /\ Reject(inv[i], inv[i].caught, <<>>, <<>>)

\* The referral catch does not throw: execute goes on with the order
ReferralFailed(i) ==
    /\ inv[i].pc = "referral_failed"
    /\ BeginExecute(inv[i])

----------------------------------------------------------------------------
(* Order execution stage *)

\* decodeContractError(e, "Error buying listing"): the decoded message of e
decodeContractError(message) == <<"decodeContractError:">> \o message

\* Mutant of Overrides: the value override is sent for every currency
Overrides_Always(s) == <<s.totalPrice>>

\* const overrides = currency.address === zeroAddress ? { value: totalPrice } : undefined
Overrides(s) == IF s.currency = zeroAddress THEN <<s.totalPrice>> ELSE <<>>

\* EOA strategies: catch of the execution stage
EOAExecuteCatch(s, message) ==
    CatchAndRethrow(s, "execute_failed", "Awaiting confirmation", message,
                    decodeContractError(message), decodeContractError(message))

\* Safe: catch of the execution stage
SafeExecuteCatch(s, message) ==
    CatchAndRethrow(s, "execute_failed", "Submitting order", message,
                    decodeContractError(message), decodeContractError(message))

ExecuteCatch(s, message) ==
    IF s.strategy = "Safe" THEN SafeExecuteCatch(s, message)
                           ELSE EOAExecuteCatch(s, message)

\* After setStep("Awaiting buy signature") / setStep("Submitting order"):
\* executeOrder(...).call() or executeOrderSafe(...)
Execute(i) ==
    /\ inv[i].pc = "execute"
    /\ LET s == inv[i] IN
       Await(s, "execute_call",
             IF s.strategy = "Safe" THEN "executeOrderSafe" ELSE "executeOrder",
             [takerOrder |-> s.takerOrder, overrides |-> Overrides(s)], <<>>)

\* The order call settled: await setStep("Awaiting confirmation") (EOA),
\* await setStep("Transaction queued") (Safe)
ExecuteCall(i) ==
    /\ inv[i].pc = "execute_call"
    /\ LET s == inv[i]
           c == Awaited(s)
       IN  IF c.out = "throw"
           THEN ExecuteCatch(s, c.val)
           ELSE AwaitStep(s, "confirm", <<setStep(s, StepsOf(s.strategy)[6])>>)

\* if (signedMessage && referralSignature)
HasReferral(s) == s.signedMessage # "" /\ s.referralSignature # ""

SubmitReferral(s) ==
    Await(s, "submit_referral", "submitReferral",
          [message |-> s.signedMessage, signature |-> s.referralSignature], <<>>)

\* EOA strategies, after the referral try block: emitHash, then
\* await setStep("Awaiting confirmation", "completed")
EOAAfterReferral(s) ==
    Commit([s EXCEPT !.pc = "completed"],
           <<setStepStatus(s, "Awaiting confirmation", "completed", NoMessage)>>,
           <<StoreCall(s, "emitHash", s.receipt)>>)

SafeSuccessMessage ==
    << "Transaction requests are submitted to the connected Safe.",
       "You can view the transactions in the Safe application.",
       "Referral attribution has been recorded with Divvi." >>

\* Safe, after the referral try block: the success content; execute ends
SafeAfterReferral(s) ==
    Resolve(s, <<setExtraContent(s, SafeSuccessMessage)>>, <<>>)

AfterReferral(s) ==
    IF s.strategy = "Safe" THEN SafeAfterReferral(s) ELSE EOAAfterReferral(s)

\* The referral try block: submitReferral when a signed message is held
ReferralSubmission(s) ==
    IF HasReferral(s) THEN SubmitReferral(s) ELSE AfterReferral(s)

\* After setStep("Awaiting confirmation"): wait for the receipt of the buy
\* (EOA).  After setStep("Transaction queued"): the referral (Safe)
Confirm(i) ==
    /\ inv[i].pc = "confirm"
    /\ LET s == inv[i] IN
       IF s.strategy = "Safe"
       THEN ReferralSubmission(s)
       ELSE Await(s, "confirm_receipt", "waitForTransactionReceipt",
                  Awaited(s).val, <<>>)

\* EOA strategies: the receipt of the buy settled; its status is not read
ConfirmReceipt(i) ==
    /\ inv[i].pc = "confirm_receipt"
    /\ LET s == inv[i]
           c == Awaited(s)
       IN  IF c.out = "throw"
           THEN ExecuteCatch(s, c.val)
           ELSE ReferralSubmission([s EXCEPT !.receipt = c.val])

\* Mutant of ReferralSubmitted: an Error of submitReferral reaches the
\* catch of the order stage
ReferralSubmitted_Propagates(i) ==
    /\ inv[i].pc = "submit_referral"
    /\ IF Awaited(inv[i]).out = "throw"
       THEN ExecuteCatch(inv[i], Awaited(inv[i]).val)
       ELSE AfterReferral(inv[i])

\* submitReferral settled: its inner catch swallows an Error
ReferralSubmitted(i) ==
    /\ inv[i].pc = "submit_referral"
    /\ AfterReferral(inv[i])

EOASuccessMessage == <<"Your transaction was successful">>

\* EOA strategies, after setStep("Awaiting confirmation", "completed"):
\* the success content; execute ends
Completed(i) ==
    /\ inv[i].pc = "completed"
    /\ Resolve(inv[i], <<setExtraContent(inv[i], EOASuccessMessage)>>, <<>>)

\* The execution catch rethrows after its setStep; EOAEnv first emits the
\* error to the store
ExecuteFailed(i) ==
    /\ inv[i].pc = "execute_failed"
    /\ LET s == inv[i] IN
       Reject(s, s.errorMessage, <<>>,
              IF s.strategy = "EOAEnv"
              THEN <<StoreCall(s, "emitError", s.caught)>> ELSE <<>>)

Next ==
    \/ \E i \in DOMAIN inv : ExecuteRejected(i)
    \/ \E i \in DOMAIN inv : ExecuteBegin(i)
    \/ \E i \in DOMAIN inv : Setup(i)
    \/ \E i \in DOMAIN inv : SetupFailed(i)
    \/ \E i \in DOMAIN inv : ERC20(i)
    \/ \E i \in DOMAIN inv : ERC20Allowance(i)
    \/ \E i \in DOMAIN inv : ERC20Approve(i)
    \/ \E i \in DOMAIN inv : ERC20Receipt(i)
    \/ \E i \in DOMAIN inv : ERC20Failed(i)
    \/ \E i \in DOMAIN inv : TransferManager(i)
    \/ \E i \in DOMAIN inv : TransferManagerCheck(i)
    \/ \E i \in DOMAIN inv : TransferManagerGrant(i)
    \/ \E i \in DOMAIN inv : TransferManagerReceipt(i)
    \/ \E i \in DOMAIN inv : TransferManagerFailed(i)
    \/ \E i \in DOMAIN inv : Referral(i)
    \/ \E i \in DOMAIN inv : ReferralSign(i)
    \/ \E i \in DOMAIN inv : ReferralFailed(i)
    \/ \E i \in DOMAIN inv : Execute(i)
    \/ \E i \in DOMAIN inv : ExecuteCall(i)
    \/ \E i \in DOMAIN inv : Confirm(i)
    \/ \E i \in DOMAIN inv : ConfirmReceipt(i)
    \/ \E i \in DOMAIN inv : ReferralSubmitted(i)
    \/ \E i \in DOMAIN inv : Completed(i)
    \/ \E i \in DOMAIN inv : ExecuteFailed(i)

Spec == Init /\ [][Next]_vars

----------------------------------------------------------------------------
(* What an invocation has done, read from the logs *)

\* The dialog calls invocation i made, in order
DialogCallsOf(i) == SelectSeq(dialogContext, LAMBDA d : d.by = i)

IsActivation(d) == d.fn = "setDialogStep" /\ d.status = NoStatus

IsMark(d, status) == d.fn = "setDialogStep" /\ d.status = status

\* The ids of the steps invocation i activated (setDialogStep without a
\* status), in order
ActivatedSteps(i) ==
    LET acts == SelectSeq(DialogCallsOf(i), IsActivation)
    IN  [k \in 1..Len(acts) |-> acts[k].arg]

\* The step list invocation i declared with setSteps (<<>> when it has not)
DeclaredSteps(i) ==
    LET decl == SelectSeq(DialogCallsOf(i), LAMBDA d : d.fn = "setSteps")
    IN  IF decl = <<>> THEN <<>> ELSE decl[Len(decl)].arg

IsPrefix(a, b) == Len(a) <= Len(b) /\ \A k \in 1..Len(a) : a[k] = b[k]

Activated(i, step) == \E k \in 1..Len(ActivatedSteps(i)) : ActivatedSteps(i)[k] = step

\* Invocation i marked `step` with `status`
Marked(i, step, status) ==
    \E k \in 1..Len(dialogContext) :
        /\ dialogContext[k].by = i
        /\ IsMark(dialogContext[k], status)
        /\ dialogContext[k].arg = step

\* Invocation i made a call of one of the functions fns
Called(i, fns) == \E k \in 1..Len(inv[i].calls) : inv[i].calls[k].fn \in fns

\* The call at position k of invocation i has settled: execute has resumed
\* from it (the last call is still awaited while pc names its await)
AwaitingPcs ==
    { "erc20_allowance", "erc20_approve", "erc20_receipt", "tm_check", "tm_grant",
      "tm_receipt", "referral_sign", "execute_call", "confirm_receipt",
      "submit_referral" }

Settled(i, k) == k < Len(inv[i].calls) \/ inv[i].pc \notin AwaitingPcs

\* Invocation i set the success content
SuccessContentSet(i) ==
    \E k \in 1..Len(dialogContext) :
        dialogContext[k].by = i /\ dialogContext[k].fn = "setExtraContent"

IsEOA(i) == inv[i].strategy \in {"EOAEnv", "EOA"}

OrderCallFns == {"executeOrder", "executeOrderSafe"}

----------------------------------------------------------------------------
(* C1 *)

\* C1: in every execution of execute (all three strategies) the steps
\* activated through setDialogStep without a status form a prefix of the
\* step list declared by setSteps, in declared order; the declared list is
\* the EOA list for the EOA strategies and the Safe list for the Safe one.
C1_ActivationsArePrefixOfSteps ==
    \A i \in DOMAIN inv :
        /\ DeclaredSteps(i) \in {<<>>, IF IsEOA(i) THEN EOASteps ELSE SafeSteps}
        /\ IsPrefix(ActivatedSteps(i), DeclaredSteps(i))

\* An execution that activated the whole pipeline and resolved
C1_Witness ==
    \E i \in DOMAIN inv :
        /\ inv[i].status = "resolved"
        /\ ActivatedSteps(i) = StepsOf(inv[i].strategy)

----------------------------------------------------------------------------
(* C2 *)

\* The call at position k of invocation i is fn and returned
Returned(i, k, fn) ==
    /\ k \in 1..Len(inv[i].calls)
    /\ inv[i].calls[k].fn = fn
    /\ inv[i].calls[k].out = "ok"

\* A transaction sent by the call at position k was confirmed by a receipt
\* whose status is success
ConfirmedSuccess(i, k) ==
    /\ Returned(i, k + 1, "waitForTransactionReceipt")
    /\ inv[i].calls[k + 1].val = "success"

\* isTransferManagerApproved returned true in this execution, or a
\* grantTransferManagerApproval transaction of this execution was confirmed
TransferManagerApprovalHeld(i) ==
    \E k \in 1..Len(inv[i].calls) :
        \/ Returned(i, k, "isTransferManagerApproved") /\ inv[i].calls[k].val
        \/ Returned(i, k, "grantTransferManagerApproval") /\ ConfirmedSuccess(i, k)

\* C2: in every execution of an EOA strategy the order-execution call
\* executeOrder(...).call() is made only when the transfer manager holds
\* approval: isTransferManagerApproved returned true, or a
\* grantTransferManagerApproval transaction was confirmed with status success.
C2_OrderOnlyWithTransferManagerApproval ==
    \A i \in DOMAIN inv :
        (IsEOA(i) /\ Called(i, {"executeOrder"})) => TransferManagerApprovalHeld(i)

\* The same, for the environment-aware strategy in a regular browser alone
C2_HoldsInBrowserEOAEnv ==
    \A i \in DOMAIN inv :
        (inv[i].strategy = "EOAEnv" /\ ~inv[i].isInFarcaster
            /\ Called(i, {"executeOrder"})) => TransferManagerApprovalHeld(i)

----------------------------------------------------------------------------
(* C3 *)

\* The steps on which the three stages before the order report an error
PreOrderFatalSteps == {"Setting up order execution", "ERC20", "Transfer manager"}

\* The step on which the order-execution stage reports an error
OrderFatalStep(i) ==
    IF inv[i].strategy = "Safe" THEN "Submitting order" ELSE "Awaiting confirmation"

PreOrderErrorMarked(i) == \E step \in PreOrderFatalSteps : Marked(i, step, "error")

FatalErrorMarked(i) ==
    PreOrderErrorMarked(i) \/ Marked(i, OrderFatalStep(i), "error")

\* After a fatal error mark the invocation makes no call and activates no
\* step, and the one thing it still does is reject with an Error
C3_NothingAfterFatalError ==
    \A i \in DOMAIN inv :
        FatalErrorMarked(i) =>
            /\ inv'[i].calls = inv[i].calls
            /\ ActivatedSteps(i)' = ActivatedSteps(i)
            /\ (inv'[i] # inv[i] =>
                    /\ inv'[i].status = "rejected"
                    /\ inv'[i].error # NoMessage)

\* After a fatal error mark execute never resolves, it is about to reject
\* or has rejected, and a failure before the order stage leaves the order
\* call unmade
C3_FatalErrorRejects ==
    \A i \in DOMAIN inv :
        FatalErrorMarked(i) =>
            /\ inv[i].status # "resolved"
            /\ inv[i].status = "pending" =>
                   inv[i].pc \in {"setup_failed", "erc20_failed", "tm_failed",
                                  "execute_failed"}
            /\ inv[i].pc = "done" =>
                   (inv[i].status = "rejected" /\ inv[i].error # NoMessage)
            /\ PreOrderErrorMarked(i) => ~Called(i, OrderCallFns)

\* C3: in every strategy, once a step of one of the four fatal stages (order
\* setup, ERC20 approval, transfer-manager approval, order execution) is
\* marked 'error', execute rejects with an Error and performs no further
\* step activation and no further SDK, wallet or referral call; a failure in
\* setup, ERC20 approval or transfer-manager approval means the order call
\* is never made.
C3_FatalErrorStopsExecute ==
    [][C3_NothingAfterFatalError]_vars /\ []C3_FatalErrorRejects

\* A transfer-manager failure that rejected execute
C3_Witness ==
    \E i \in DOMAIN inv :
        /\ Marked(i, "Transfer manager", "error")
        /\ inv[i].status = "rejected"

----------------------------------------------------------------------------
(* C4 *)

\* order.price * unitAmount, from the arguments of execute
RequiredAmount(i) == inv[i].order.price * inv[i].unitAmount

NonNativeOrder(i) == inv[i].order.currency = "0xERC20"

\* In the embedded host the two reads are never made and the two approvals
\* are attempted whenever their stage is passed; in a regular browser each
\* approval directly follows the read that asked for it
C4_BranchesOnHost ==
    \A i \in DOMAIN inv :
        inv[i].strategy = "EOAEnv" =>
            /\ inv[i].isInFarcaster =>
                 /\ ~Called(i, {"getERC20Allowance", "isTransferManagerApproved"})
                 /\ ( /\ NonNativeOrder(i)
                      /\ Activated(i, "Transfer manager") \/ Marked(i, "ERC20", "error") )
                        => Called(i, {"approveErc20"})
                 /\ ( Activated(i, "Divvi referral setup")
                        \/ Marked(i, "Transfer manager", "error") )
                        => Called(i, {"grantTransferManagerApproval"})
            /\ ~inv[i].isInFarcaster =>
                 \A k \in 1..Len(inv[i].calls) :
                    /\ inv[i].calls[k].fn = "approveErc20" =>
                         /\ Returned(i, k - 1, "getERC20Allowance")
                         /\ inv[i].calls[k - 1].val < RequiredAmount(i)
                    /\ inv[i].calls[k].fn = "grantTransferManagerApproval" =>
                         /\ Returned(i, k - 1, "isTransferManagerApproved")
                         /\ ~inv[i].calls[k - 1].val

\* The host environment is read once, before the first await
C4_DetectedOnce ==
    \A i \in DOMAIN inv :
        inv[i].pc # "start" => inv'[i].isInFarcaster = inv[i].isInFarcaster

\* C4: the environment-aware EOA strategy branches on the host environment
\* detected once at the start of execute: in the embedded host it never calls
\* getERC20Allowance or isTransferManagerApproved and always attempts
\* approveErc20 (non-native currency) and grantTransferManagerApproval; in a
\* regular browser approveErc20 is called only after getERC20Allowance
\* returned less than the total price and grantTransferManagerApproval only
\* after isTransferManagerApproved returned false.
C4_EnvironmentBranching == []C4_BranchesOnHost /\ [][C4_DetectedOnce]_vars

\* The embedded host, an ERC20 order, both approvals attempted, order called
C4_Witness ==
    \E i \in DOMAIN inv :
        /\ inv[i].strategy = "EOAEnv" /\ inv[i].isInFarcaster /\ NonNativeOrder(i)
        /\ Called(i, {"approveErc20"})
        /\ Called(i, {"grantTransferManagerApproval"})
        /\ Called(i, {"executeOrder"})

----------------------------------------------------------------------------
(* C5 *)

\* C5: the Safe strategy only queues transactions: it uses only the Safe
\* variants of the SDK calls, never waits for a transaction receipt,
\* activates 'Transaction queued' and sets the success content only after
\* executeOrderSafe has resolved, and never marks a step 'completed'.
C5_SafeOnlyQueues ==
    \A i \in DOMAIN inv :
        inv[i].strategy = "Safe" =>
            /\ ~Called(i, {"approveErc20", "isTransferManagerApproved",
                           "grantTransferManagerApproval", "executeOrder",
                           "waitForTransactionReceipt"})
            /\ (Activated(i, "Transaction queued") \/ SuccessContentSet(i)) =>
                   \E k \in 1..Len(inv[i].calls) :
                       Returned(i, k, "executeOrderSafe") /\ Settled(i, k)
            /\ SuccessContentSet(i) => Activated(i, "Transaction queued")
            /\ \A k \in 1..Len(dialogContext) :
                   dialogContext[k].by = i => ~IsMark(dialogContext[k], "completed")

\* A Safe execution that queued both approvals and the order
C5_Witness ==
    \E i \in DOMAIN inv :
        /\ inv[i].strategy = "Safe"
        /\ Called(i, {"approveErc20Safe"})
        /\ Called(i, {"grantTransferManagerApprovalSafe"})
        /\ SuccessContentSet(i)

----------------------------------------------------------------------------
(* C6 *)

ReferralSetupFns == {"getReferralTag", "signMessage"}

ReferralSetupThrewAt(i, k) ==
    /\ inv[i].calls[k].fn \in ReferralSetupFns
    /\ inv[i].calls[k].out = "throw"
    /\ Settled(i, k)

ReferralSetupThrew(i) == \E k \in 1..Len(inv[i].calls) : ReferralSetupThrewAt(i, k)

\* C6: referral attribution never blocks the purchase: if getReferralTag or
\* signMessage throws, 'Divvi referral setup' is marked 'error', execute
\* does not reject because of it, the order call is the next call made, and
\* submitReferral is never called; submitReferral is called only with a
\* non-empty signed message and signature.
C6_ReferralNeverBlocks ==
    \A i \in DOMAIN inv :
        /\ Called(i, {"submitReferral"}) =>
               (inv[i].signedMessage # "" /\ inv[i].referralSignature # "")
        /\ ReferralSetupThrew(i) =>
            /\ Marked(i, "Divvi referral setup", "error")
            /\ ~Called(i, {"submitReferral"})
            /\ \A k \in 1..Len(inv[i].calls) :
                   (ReferralSetupThrewAt(i, k) /\ k < Len(inv[i].calls)) =>
                       inv[i].calls[k + 1].fn \in OrderCallFns
            /\ inv[i].pc = "done" => Called(i, OrderCallFns)
            /\ inv[i].status = "rejected" =>
                   /\ Awaited(inv[i]).fn \in OrderCallFns \cup {"waitForTransactionReceipt"}
                   /\ Awaited(inv[i]).out = "throw"
                   /\ inv[i].error = decodeContractError(Awaited(inv[i]).val)

\* A purchase that went through although the referral setup failed
C6_Witness ==
    \E i \in DOMAIN inv : ReferralSetupThrew(i) /\ inv[i].status = "resolved"

----------------------------------------------------------------------------
(* C7 *)

EmittedHash(i) ==
    \E k \in 1..Len(store) : store[k].by = i /\ store[k].fn = "emitHash"

\* The receipt of the buy transaction was returned with a status that is
\* not success, and execute has resumed from it
BuyReceiptNotSuccess(i) ==
    \E k \in 2..Len(inv[i].calls) :
        /\ inv[i].calls[k - 1].fn = "executeOrder"
        /\ Returned(i, k, "waitForTransactionReceipt")
        /\ inv[i].calls[k].val # "success"
        /\ Settled(i, k)

\* C7: the EOA strategies report a successful purchase only for a
\* successful transaction: submitReferral, emitHash, the 'completed' mark on
\* 'Awaiting confirmation' and the success content happen only if the buy
\* receipt has status success; a buy receipt that is not success leads to an
\* error on the step and a rejected execute.
C7_SuccessOnlyForSuccessReceipt ==
    \A i \in DOMAIN inv :
        IsEOA(i) =>
            /\ ( \/ Called(i, {"submitReferral"})
                 \/ EmittedHash(i)
                 \/ Marked(i, "Awaiting confirmation", "completed")
                 \/ SuccessContentSet(i) ) => inv[i].receipt = "success"
            /\ BuyReceiptNotSuccess(i) =>
                 /\ Marked(i, "Awaiting confirmation", "error")
                 /\ inv[i].status # "resolved"

----------------------------------------------------------------------------
(* C8 *)

\* getERC20Allowance returned at least the required amount, or an
\* approveErc20 transaction for that amount was confirmed
AllowanceInPlace(i) ==
    \E k \in 1..Len(inv[i].calls) :
        \/ Returned(i, k, "getERC20Allowance") /\ inv[i].calls[k].val >= RequiredAmount(i)
        \/ /\ Returned(i, k, "approveErc20")
           /\ inv[i].calls[k].arg.amount = RequiredAmount(i)
           /\ ConfirmedSuccess(i, k)

\* C8: in every execution of an EOA strategy with a non-native currency the
\* order call is made only when the ERC20 allowance is in place:
\* getERC20Allowance returned at least order.price * unitAmount, or an
\* approveErc20 transaction for that amount was confirmed with status success.
C8_OrderOnlyWithAllowance ==
    \A i \in DOMAIN inv :
        (IsEOA(i) /\ NonNativeOrder(i) /\ Called(i, {"executeOrder"}))
            => AllowanceInPlace(i)

\* The same, for the environment-aware strategy in a regular browser alone
C8_HoldsInBrowserEOAEnv ==
    \A i \in DOMAIN inv :
        (inv[i].strategy = "EOAEnv" /\ ~inv[i].isInFarcaster /\ NonNativeOrder(i)
            /\ Called(i, {"executeOrder"})) => AllowanceInPlace(i)

----------------------------------------------------------------------------
(* C9 *)

\* approveErc20 failed with a message containing 'insufficient funds' and
\* execute has resumed from it
ApprovalFailedInsufficientFunds(i) ==
    \E k \in 1..Len(inv[i].calls) :
        /\ inv[i].calls[k].fn = "approveErc20"
        /\ inv[i].calls[k].out = "throw"
        /\ includes(inv[i].calls[k].val, <<"insufficient", "funds">>)
        /\ Settled(i, k)

MarkedWithMessage(i, step, status, message) ==
    \E k \in 1..Len(dialogContext) :
        /\ dialogContext[k].by = i
        /\ IsMark(dialogContext[k], status)
        /\ dialogContext[k].arg = step
        /\ dialogContext[k].msg = message

InsufficientFundsHandled(i) ==
    /\ MarkedWithMessage(i, "ERC20", "error", InsufficientFundsForApproval)
    /\ inv[i].status # "resolved"
    /\ inv[i].pc = "done" => inv[i].error = InsufficientFundsForApproval
    /\ ~Activated(i, "Transfer manager")
    /\ ~Called(i, {"isTransferManagerApproved", "grantTransferManagerApproval",
                   "executeOrder"})

\* C9: in the environment-aware EOA strategy, in both host environments,
\* when approveErc20 fails with a message containing 'insufficient funds',
\* the 'ERC20' step is marked 'error' with 'Insufficient funds for approval.
\* Please ensure you have enough ETH for gas fees.', execute rejects with
\* that message, and the transfer-manager and order stages never start.
C9_InsufficientFundsStopsExecute ==
    \A i \in DOMAIN inv :
        (inv[i].strategy = "EOAEnv" /\ ApprovalFailedInsufficientFunds(i))
            => InsufficientFundsHandled(i)

\* The same, in a regular browser alone
C9_HoldsInBrowser ==
    \A i \in DOMAIN inv :
        (inv[i].strategy = "EOAEnv" /\ ~inv[i].isInFarcaster
            /\ ApprovalFailedInsufficientFunds(i)) => InsufficientFundsHandled(i)

----------------------------------------------------------------------------
(* C10 *)

PreconditionMissing(i) ==
    ~inv[i].exchangeClient \/ ~inv[i].chainId \/ ~inv[i].walletClientData

\* C10: execute checks its preconditions in the order exchange client,
\* chain id, wallet client data; at the first missing one it calls
\* setOpen(false), rejects with 'No client', 'No chain id' or 'No wallet
\* client data' respectively, and has made no setSteps, setDialogStep,
\* setOpen(true), SDK, wallet or referral call (all three strategies).
C10_GuardsRejectInOrder ==
    \A i \in DOMAIN inv :
        PreconditionMissing(i) =>
            /\ inv[i].pc \in {"start", "done"}
            /\ inv[i].calls = <<>>
            /\ \A k \in 1..Len(store) : store[k].by # i
            /\ inv[i].pc = "start" => DialogCallsOf(i) = <<>>
            /\ inv[i].pc = "done" =>
                /\ DialogCallsOf(i) =
                      << [by |-> i, fn |-> "setOpen", arg |-> FALSE,
                          status |-> NoStatus, msg |-> NoMessage] >>
                /\ inv[i].status = "rejected"
                /\ ~inv[i].exchangeClient => inv[i].error = <<"No", "client">>
                /\ (inv[i].exchangeClient /\ ~inv[i].chainId) =>
                       inv[i].error = <<"No", "chain", "id">>
                /\ (inv[i].exchangeClient /\ inv[i].chainId) =>
                       inv[i].error = <<"No", "wallet", "client", "data">>

\* An invocation with a client and wallet data but no chain id, rejected
C10_Witness ==
    \E i \in DOMAIN inv :
        /\ inv[i].exchangeClient /\ ~inv[i].chainId /\ ~inv[i].walletClientData
        /\ inv[i].status = "rejected"

----------------------------------------------------------------------------
(* C11 *)

NativeOrder(i) == inv[i].order.currency = zeroAddress

TransferManagerFns ==
    { "isTransferManagerApproved", "isTransferManagerApprovedSafe",
      "grantTransferManagerApproval", "grantTransferManagerApprovalSafe" }

\* C11: for a native-currency order, in every strategy and host
\* environment, no allowance check and no ERC20 approval call is made (the
\* 'ERC20' step is activated and passed without external calls) and the
\* order is executed with a value override equal to order.price *
\* unitAmount; for any other currency the order is executed with no value
\* override.
C11_NativeOrderSkipsApproval ==
    \A i \in DOMAIN inv :
        /\ NativeOrder(i) =>
            /\ ~Called(i, {"getERC20Allowance", "approveErc20", "approveErc20Safe"})
            /\ (Activated(i, "ERC20") /\ inv[i].pc # "erc20") =>
                   Activated(i, "Transfer manager")
            /\ Len(inv[i].calls) >= 2 => inv[i].calls[2].fn \in TransferManagerFns
        /\ \A k \in 1..Len(inv[i].calls) :
               inv[i].calls[k].fn \in OrderCallFns =>
                   inv[i].calls[k].arg.overrides =
                       IF NativeOrder(i) THEN <<RequiredAmount(i)>> ELSE <<>>

\* A native-currency order whose order call was made
C11_Witness ==
    \E i \in DOMAIN inv :
        /\ NativeOrder(i)
        /\ Activated(i, "ERC20")
        /\ Called(i, OrderCallFns)

----------------------------------------------------------------------------
(* C12 *)

\* submitReferral threw and execute has resumed from it
SubmitReferralThrew(i) ==
    \E k \in 1..Len(inv[i].calls) :
        /\ inv[i].calls[k].fn = "submitReferral"
        /\ inv[i].calls[k].out = "throw"
        /\ Settled(i, k)

MarkedAnyError(i) ==
    \E k \in 1..Len(dialogContext) :
        dialogContext[k].by = i /\ IsMark(dialogContext[k], "error")

\* C12: a failure of submitReferral is non-critical in every strategy: it
\* is called only after the buy receipt was obtained (EOA) or after
\* executeOrderSafe resolved (Safe), and if it throws no step is marked
\* 'error', execute still resolves and the success content is still set
\* (for EOA, emitHash is still called and 'Awaiting confirmation' is still
\* marked 'completed').
C12_SubmitReferralNonCritical ==
    \A i \in DOMAIN inv :
        /\ \A k \in 1..Len(inv[i].calls) :
               inv[i].calls[k].fn = "submitReferral" =>
                   IF IsEOA(i)
                   THEN /\ Returned(i, k - 1, "waitForTransactionReceipt")
                        /\ Returned(i, k - 2, "executeOrder")
                   ELSE Returned(i, k - 1, "executeOrderSafe")
        /\ SubmitReferralThrew(i) =>
            /\ ~MarkedAnyError(i)
            /\ inv[i].status # "rejected"
            /\ inv[i].pc = "done" =>
                   (inv[i].status = "resolved" /\ SuccessContentSet(i))
            /\ IsEOA(i) =>
                   /\ EmittedHash(i)
                   /\ Marked(i, "Awaiting confirmation", "completed")

\* A purchase that resolved although submitReferral threw
C12_Witness ==
    \E i \in DOMAIN inv :
        /\ SubmitReferralThrew(i)
        /\ inv[i].status = "resolved"
        /\ SuccessContentSet(i)

----------------------------------------------------------------------------
(* C13 *)

\* Invocation i set a success content whose message holds `sentence`
SuccessContentStates(i, sentence) ==
    \E k \in 1..Len(dialogContext) :
        /\ dialogContext[k].by = i
        /\ dialogContext[k].fn = "setExtraContent"
        /\ \E j \in 1..Len(dialogContext[k].arg) : dialogContext[k].arg[j] = sentence

\* C13: whenever the Safe strategy sets the success content whose message
\* states 'Referral attribution has been recorded with Divvi.',
\* submitReferral was called in that execution and resolved successfully.
C13_RecordedMessageMeansSubmitted ==
    \A i \in DOMAIN inv :
        ( /\ inv[i].strategy = "Safe"
          /\ SuccessContentStates(i, "Referral attribution has been recorded with Divvi.") )
            => \E k \in 1..Len(inv[i].calls) : Returned(i, k, "submitReferral")

----------------------------------------------------------------------------
(* C14 *)

\* The error mark at position k of the dialog calls d of one invocation is
\* on the step that invocation activated last before it
ErrorOnActiveStep(d, k) ==
    LET prior == { j \in 1..(k - 1) : IsActivation(d[j]) } IN
    /\ prior # {}
    /\ d[CHOOSE j \in prior : \A l \in prior : l <= j].arg = d[k].arg

ErrorsOnActiveStep(i) ==
    LET d == DialogCallsOf(i) IN
    \A k \in 1..Len(d) : IsMark(d[k], "error") => ErrorOnActiveStep(d, k)

\* C14: whenever execute marks a step with status 'error', that step is the
\* one most recently activated in that execution; this holds in every
\* strategy for a failure of any external call, including a failure of the
\* buy call while 'Awaiting buy signature' is the active step.
C14_ErrorMarksActiveStep == \A i \in DOMAIN inv : ErrorsOnActiveStep(i)

\* The same, for the Safe strategy alone
C14_HoldsForSafe ==
    \A i \in DOMAIN inv : inv[i].strategy = "Safe" => ErrorsOnActiveStep(i)

\* The same, for the EOA strategies as long as the buy call has not thrown
C14_HoldsForEOABeforeBuyFails ==
    \A i \in DOMAIN inv :
        ( /\ IsEOA(i)
          /\ \A k \in 1..Len(inv[i].calls) :
                 inv[i].calls[k].fn = "executeOrder" => inv[i].calls[k].out = "ok" )
            => ErrorsOnActiveStep(i)

----------------------------------------------------------------------------
(* C15 *)

\* What the taker bid pays: pricePerUnit * unitAmount as passed to
\* createFractionalSaleTakerBid
BidAmount(i) == inv[i].takerOrder.pricePerUnit * inv[i].takerOrder.unitAmount

\* Every amount execute approved, and every allowance it accepted as
\* sufficient, covers the bid
AmountsCoverBid(i) ==
    \A k \in 1..Len(inv[i].calls) :
        /\ inv[i].calls[k].fn \in {"approveErc20", "approveErc20Safe"} =>
               inv[i].calls[k].arg.amount >= BidAmount(i)
        /\ ( /\ Returned(i, k, "getERC20Allowance")
             /\ Settled(i, k)
             /\ ~(k < Len(inv[i].calls)
                    /\ inv[i].calls[k + 1].fn \in {"approveErc20", "approveErc20Safe"}) )
               => inv[i].calls[k].val >= BidAmount(i)

\* C15: for a non-native currency, the ERC20 amount that execute requires
\* or approves before executing the order is at least the amount the taker
\* bid will pay, pricePerUnit * unitAmount, for every order.price,
\* pricePerUnit and unitAmount (including pricePerUnit > order.price).
C15_ApprovalCoversBid ==
    \A i \in DOMAIN inv :
        (NonNativeOrder(i) /\ inv[i].takerOrder # NoTakerOrder) =>
            /\ inv[i].totalPrice >= BidAmount(i)
            /\ AmountsCoverBid(i)

\* The same, when pricePerUnit does not exceed order.price
C15_HoldsWhenBidAtMostPrice ==
    \A i \in DOMAIN inv :
        ( /\ NonNativeOrder(i) /\ inv[i].takerOrder # NoTakerOrder
          /\ inv[i].pricePerUnit <= inv[i].order.price ) =>
            /\ inv[i].totalPrice >= BidAmount(i)
            /\ AmountsCoverBid(i)

----------------------------------------------------------------------------
(* C16: two invocations of execute on one strategy instance, overlapping *)

\* How many dialog calls the second invocation may have made before it is
\* left suspended
MaxSecondDialogCalls == 4

\* execute called twice on the same strategy instance: the instance fields
\* and the dialog context are shared, each call has its own arguments
InitOverlap ==
    /\ \E st \in Strategies, wd \in BOOLEAN, o \in {[currency |-> "0xERC20", price |-> 1]} :
          inv = [ i \in {1, 2} |-> NewInvocation(i, st, TRUE, TRUE, wd, o, 1, 1) ]
    /\ dialogContext = <<>>
    /\ store = <<>>

\* Invocation 1 runs freely; invocation 2 runs until it has made
\* MaxSecondDialogCalls dialog calls
OverlapStep(i) == i = 1 \/ Len(DialogCallsOf(2)) < MaxSecondDialogCalls

NextOverlap ==
    \/ \E i \in DOMAIN inv : OverlapStep(i) /\ ExecuteRejected(i)
    \/ \E i \in DOMAIN inv : OverlapStep(i) /\ ExecuteBegin(i)
    \/ \E i \in DOMAIN inv : OverlapStep(i) /\ Setup(i)
    \/ \E i \in DOMAIN inv : OverlapStep(i) /\ SetupFailed(i)
    \/ \E i \in DOMAIN inv : OverlapStep(i) /\ ERC20(i)
    \/ \E i \in DOMAIN inv : OverlapStep(i) /\ ERC20Allowance(i)
    \/ \E i \in DOMAIN inv : OverlapStep(i) /\ ERC20Approve(i)
    \/ \E i \in DOMAIN inv : OverlapStep(i) /\ ERC20Receipt(i)
    \/ \E i \in DOMAIN inv : OverlapStep(i) /\ ERC20Failed(i)
    \/ \E i \in DOMAIN inv : OverlapStep(i) /\ TransferManager(i)
    \/ \E i \in DOMAIN inv : OverlapStep(i) /\ TransferManagerCheck(i)
    \/ \E i \in DOMAIN inv : OverlapStep(i) /\ TransferManagerGrant(i)
    \/ \E i \in DOMAIN inv : OverlapStep(i) /\ TransferManagerReceipt(i)
    \/ \E i \in DOMAIN inv : OverlapStep(i) /\ TransferManagerFailed(i)
    \/ \E i \in DOMAIN inv : OverlapStep(i) /\ Referral(i)
    \/ \E i \in DOMAIN inv : OverlapStep(i) /\ ReferralSign(i)
    \/ \E i \in DOMAIN inv : OverlapStep(i) /\ ReferralFailed(i)
    \/ \E i \in DOMAIN inv : OverlapStep(i) /\ Execute(i)
    \/ \E i \in DOMAIN inv : OverlapStep(i) /\ ExecuteCall(i)
    \/ \E i \in DOMAIN inv : OverlapStep(i) /\ Confirm(i)
    \/ \E i \in DOMAIN inv : OverlapStep(i) /\ ConfirmReceipt(i)
    \/ \E i \in DOMAIN inv : OverlapStep(i) /\ ReferralSubmitted(i)
    \/ \E i \in DOMAIN inv : OverlapStep(i) /\ Completed(i)
    \/ \E i \in DOMAIN inv : OverlapStep(i) /\ ExecuteFailed(i)

SpecOverlap == InitOverlap /\ [][NextOverlap]_vars

\* The position of a step in the pipeline of the strategy
StepIndex(steps, step) == CHOOSE k \in 1..Len(steps) : steps[k] = step

\* After the activation at position a of the shared log, the call at a
\* later position b, made by the other invocation, does not activate or
\* mark 'error' an earlier step
NoEarlierStepByOther(a, b) ==
    LET d == dialogContext
        steps == StepsOf(inv[d[a].by].strategy) IN
    ( /\ d[a].by # d[b].by
      /\ IsActivation(d[a])
      /\ IsActivation(d[b]) \/ IsMark(d[b], "error") )
        => StepIndex(steps, d[b].arg) >= StepIndex(steps, d[a].arg)

\* The setSteps call at position b resets the list while another invocation
\* is running: that invocation made dialog calls before and after it
ResetWhileRunning(b) ==
    /\ dialogContext[b].fn = "setSteps"
    /\ \E a \in 1..(b - 1), c \in (b + 1)..Len(dialogContext) :
          /\ dialogContext[a].by # dialogContext[b].by
          /\ dialogContext[c].by = dialogContext[a].by

\* C16: when two execute invocations sharing the dialog context overlap,
\* the steps on the shared progress indicator still follow the pipeline
\* order: after a step has been activated, the other invocation activates
\* or marks 'error' no earlier step, and the step list is not reset while
\* an invocation is still running.
C16_SharedIndicatorFollowsPipeline ==
    /\ \A b \in 1..Len(dialogContext) : \A a \in 1..(b - 1) : NoEarlierStepByOther(a, b)
    /\ \A b \in 1..Len(dialogContext) : ~ResetWhileRunning(b)

\* Each half of it alone
C16_NoEarlierStepByOther ==
    \A b \in 1..Len(dialogContext) : \A a \in 1..(b - 1) : NoEarlierStepByOther(a, b)

C16_NoResetWhileRunning ==
    \A b \in 1..Len(dialogContext) : ~ResetWhileRunning(b)

====
